---- MODULE Spec2Model ----
(***************************************************************************)
(* Model of src/mcp_search.py: the search-augmentation pipeline of the     *)
(* role-play chat assistant (MCPSearchEngine, MCPChatManager).             *)
(*                                                                         *)
(* Text is abstracted to records [id, n, dots]: id names the text, n is    *)
(* its length in characters, dots tells whether the "..." marker was       *)
(* appended.  Longer texts (prompts, summaries) are sequences of such      *)
(* pieces; Python string concatenation is sequence concatenation.          *)
(***************************************************************************)
EXTENDS Integers, Sequences, FiniteSets, TLC

VARIABLES
    search_cache,   \* MCPChatManager.search_cache: query -> [summary, results]
    ret,            \* outcome of the last chat_with_mcp call (sequential)
    prev,           \* outcome of the chat_with_mcp call before the last one
    calls,          \* collaborator calls made by the last chat_with_mcp call
    sent,           \* message list handed to the final generation call
    sw_in,          \* backend behaviour given to the last direct search_web call
    sw_out,         \* outcome of the last direct search_web call
    sm_in,          \* arguments and model reply of the last direct summarizer call
    sm_out,         \* outcome of the last direct summarize_search_results call
    fw_in,          \* response and max_length of the last direct page fetch
    fw_out,         \* outcome of the last direct fetch_webpage_content call
    pc,             \* concurrent turns: position of each turn in chat_with_mcp
    loc,            \* concurrent turns: local variables of each turn
    writes          \* concurrent turns: history of cache writes, oldest first

vars == <<search_cache, ret, prev, calls, sent, sw_in, sw_out, sm_in, sm_out, fw_in, fw_out,
          pc, loc, writes>>

----------------------------------------------------------------------------
(* Text values *)

T(id, n) == [id |-> id, n |-> n, dots |-> FALSE]

EmptyText == T("", 0)

\* Python truthiness of a str: non-empty
Truthy(t) == t.n > 0

\* t[:k]
Prefix(t, k) == IF t.n <= k THEN t ELSE [id |-> t.id, n |-> k, dots |-> FALSE]

\* t + "..."
WithDots(t) == [id |-> t.id, n |-> t.n + 3, dots |-> TRUE]

\* JSON null / Python None standing where a str is expected
NONE == [id |-> "None", n |-> -1, dots |-> FALSE]

\* dict.get(key, default)
Get(d, key, default) == IF key \in DOMAIN d THEN d[key] ELSE default

\* sep.join(parts), every part a sequence of text pieces
RECURSIVE Join(_, _)
Join(sep, parts) ==
    IF parts = <<>> THEN <<>>
    ELSE IF Len(parts) = 1 THEN parts[1]
    ELSE parts[1] \o <<sep>> \o Join(sep, Tail(parts))

\* xs[:k] on a list
Take(xs, k) == IF Len(xs) <= k THEN xs ELSE SubSeq(xs, 1, k)

----------------------------------------------------------------------------
(* The web: what an HTTP GET of a url yields after tag stripping and blank-  *)
(* line cleaning (lines 99-113).  "error" covers every exception raised by  *)
(* requests or the parser (connection error, timeout, invalid url).         *)

DefaultMaxLength == 3000

HttpGet(url) ==
    CASE url = "u1" -> [kind |-> "page", text |-> T("P1", 120)]
      [] url = "u3" -> [kind |-> "page", text |-> T("P3", 3001)]
      [] url = "u5" -> [kind |-> "page", text |-> T("", 0)]
      [] OTHER      -> [kind |-> "error"]

\* A fetch that also cuts a text of exactly max_length characters
FetchedText_CutAtLimit(resp, max_length) ==
    IF resp.kind = "error" THEN EmptyText
    ELSE IF resp.text.n >= max_length
         THEN WithDots(Prefix(resp.text, max_length))
         ELSE resp.text

\* lines 95-123: the body of fetch_webpage_content once the GET has answered
\* with resp; the except clause turns every error into ""
FetchedText(resp, max_length) ==
    IF resp.kind = "error" THEN EmptyText
    ELSE IF resp.text.n > max_length
         THEN WithDots(Prefix(resp.text, max_length))
         ELSE resp.text

\* fetch_webpage_content(url, max_length)
fetch_webpage_content(url, max_length) == FetchedText(HttpGet(url), max_length)

----------------------------------------------------------------------------
(* search_web *)

MaxHits == 2

search_strategies ==
    << [region |-> "None",  safesearch |-> "moderate"],
       [region |-> "wt-wt", safesearch |-> "moderate"],
       [region |-> "cn-zh", safesearch |-> "off"] >>

\* Backend hits: dicts with keys among href, title, body.
hOk     == [href |-> "u1", title |-> T("T1", 4), body |-> T("S1", 20)]
hDown   == [href |-> "u2", title |-> T("T2", 4), body |-> T("S2", 20)]
hNoHref == [title |-> T("T3", 4), body |-> T("S3", 20)]
hBad    == [href |-> "u1", title |-> NONE, body |-> T("S4", 20)]
hLong   == [href |-> "u3", title |-> T("T5", 60), body |-> T("S5", 20)]

HitKinds == {hOk, hDown, hNoHref, hBad}

RECURSIVE SeqsUpTo(_, _)
SeqsUpTo(S, n) ==
    IF n = 0 THEN {<<>>}
    ELSE LET shorter == SeqsUpTo(S, n - 1) IN
         shorter \cup {Append(s, x) : s \in {t \in shorter : Len(t) = n - 1}, x \in S}

\* One outcome of self.ddgs.text(**search_params): it raises, or yields hits
\* (None and an empty generator both become the empty list, line 163).
StrategyOutcomes ==
    {[kind |-> "raise", hits |-> <<>>]}
    \cup {[kind |-> "hits", hits |-> h] : h \in SeqsUpTo(HitKinds, MaxHits)}

Backends == [1..Len(search_strategies) -> StrategyOutcomes]

\* title[:50] (line 172) raises TypeError when title is None
HitRaises(r) == Get(r, "title", EmptyText) = NONE

\* lines 167-180: the record appended for one hit
MakeRecord(r) ==
    LET url == Get(r, "href", "")
        title == Get(r, "title", EmptyText)
        snippet == Get(r, "body", EmptyText)
        full_content == fetch_webpage_content(url, DefaultMaxLength)
    IN [title |-> title,
        snippet |-> snippet,
        full_content |-> IF Truthy(full_content) THEN full_content ELSE snippet,
        url |-> url]

\* lines 166-180: the for loop over one strategy's hits, appending to results;
\* raised tells whether an exception left the loop early
RECURSIVE AssembleHits(_, _, _)
AssembleHits(hits, results, fetched) ==
    IF hits = <<>> THEN [results |-> results, fetched |-> fetched, raised |-> FALSE]
    ELSE LET r == Head(hits) IN
         IF HitRaises(r)
         THEN [results |-> results, fetched |-> fetched, raised |-> TRUE]
         ELSE AssembleHits(Tail(hits), Append(results, MakeRecord(r)),
                           Append(fetched, Get(r, "href", "")))

\* lines 181-188: after the hits of strategy i were processed with outcome a,
\* break on success, continue with the next strategy after an exception
RECURSIVE TryStrategies(_, _, _, _, _)
AfterAssembly(backend, i, a, queried) ==
    IF a.raised
    THEN TryStrategies(backend, i + 1, a.results, queried, a.fetched)
    ELSE [results |-> a.results, queried |-> queried, fetched |-> a.fetched]

\* lines 147-188: the loop over search_strategies from strategy i on
TryStrategies(backend, i, results, queried, fetched) ==
    IF i > Len(search_strategies)
    THEN [results |-> results, queried |-> queried, fetched |-> fetched]
    ELSE IF backend[i].kind = "raise" \/ backend[i].hits = <<>>
    THEN TryStrategies(backend, i + 1, results, Append(queried, i), fetched)
    ELSE AfterAssembly(backend, i, AssembleHits(backend[i].hits, results, fetched),
                       Append(queried, i))

\* line 193: the value returned after the loop
SearchWebReturn(r) ==
    [called |-> TRUE, results |-> r.results, raised |-> FALSE, queried |-> r.queried,
     fetched |-> r.fetched]

\* search_web(query, max_results): results is the returned list, raised tells
\* whether the call raised to its caller, queried lists the strategies whose
\* backend call was made, fetched the urls fetched, in order
search_web(backend) == SearchWebReturn(TryStrategies(backend, 1, <<>>, <<>>, <<>>))

----------------------------------------------------------------------------
(* should_search *)

Queries == {"qa", "qb"}

Obj(fields) == [type |-> "object", fields |-> fields]

\* Outcomes of the decision model call (lines 70-75): it raises, or it
\* replies with a text that json.loads (line 77) rejects or parses.
DecisionReplies ==
    {[kind |-> "error", parsed |-> [type |-> "none", fields |-> [reason |-> "-"]]],
     [kind |-> "text",  parsed |-> [type |-> "notjson", fields |-> [reason |-> "-"]]],
     [kind |-> "text",  parsed |-> [type |-> "array", fields |-> [reason |-> "-"]]],
     [kind |-> "text",  parsed |-> Obj([reason |-> "r"])],
     [kind |-> "text",  parsed |-> Obj([need_search |-> FALSE, search_query |-> "", reason |-> "r"])],
     [kind |-> "text",  parsed |-> Obj([need_search |-> FALSE, reason |-> "r"])],
     [kind |-> "text",  parsed |-> Obj([need_search |-> TRUE, reason |-> "r"])]}
    \cup {[kind |-> "text",
           parsed |-> Obj([need_search |-> TRUE, search_query |-> q, reason |-> "r"])] :
          q \in Queries}

\* A default that asks for a search
decision_default_NeedSearch ==
    Obj([need_search |-> TRUE, search_query |-> "qa", reason |-> "decision failed"])

\* line 82
decision_default == Obj([need_search |-> FALSE, search_query |-> "", reason |-> "decision failed"])

\* should_search(user_message, character_name): lines 69-82
should_search(dreply) ==
    IF dreply.kind = "error" THEN decision_default
    ELSE IF dreply.parsed.type = "notjson" THEN decision_default
    ELSE dreply.parsed

\* decision[key] (lines 354, 355): KeyError on a missing key, TypeError when
\* the decoded reply is not a dict
Subscript(decision, key) ==
    IF decision.type = "object" /\ key \in DOMAIN decision.fields
    THEN [raised |-> FALSE, value |-> decision.fields[key]]
    ELSE [raised |-> TRUE, value |-> FALSE]

----------------------------------------------------------------------------
(* summarize_search_results, enhance_context *)

MaxSummarized == 5
PromptChars == 1500
FallbackChars == 300

\* line 213, line 381
NoInfoMarker == <<T("NO_INFO", 7)>>

\* Outcomes of the summarizer model call (lines 239-246)
SummaryReplies ==
    {[kind |-> "error", content |-> EmptyText],
     [kind |-> "ok", content |-> T("SUM1", 300)],
     [kind |-> "ok", content |-> T("SUM2", 250)]}

\* lines 253-256
FallbackSummary(results) ==
    Join(T("nn", 2),
         [i \in 1..Len(Take(results, MaxSummarized)) |->
             <<T("[", 1), results[i].title, T("]n", 2),
               Prefix(results[i].full_content, FallbackChars)>>])

\* lines 216-219
ResultsText(results) ==
    <<T("nn==", 52)>> \o
    Join(T("nn", 2),
         [i \in 1..Len(Take(results, MaxSummarized)) |->
             <<T("src", 6), results[i].title, T("url", 4), T(results[i].url, 2),
               T("body", 8), Prefix(results[i].full_content, PromptChars)>>])

\* summarize_search_results(query, results): lines 212-256
summarize_search_results(query, results, sreply) ==
    IF results = <<>>
    THEN [summary |-> NoInfoMarker, model_called |-> FALSE]
    ELSE IF sreply.kind = "error" \/ sreply.content = NONE
         THEN [summary |-> FallbackSummary(results), model_called |-> TRUE]
         ELSE [summary |-> <<sreply.content>>, model_called |-> TRUE]

\* enhance_context(user_message, character_name, search_results_summary): lines 273-293
enhance_context(user_message, character_name, search_results_summary) ==
    <<T("ctx_head", 30), user_message, T("ctx_facts", 80)>>
    \o search_results_summary
    \o <<T("ctx_rules", 200), character_name, T("ctx_ask", 300), character_name,
         T("ctx_end", 20)>>

----------------------------------------------------------------------------
(* chat_with_mcp *)

\* An initial result that already claims a search
InitResult_Performed ==
    [response |-> <<>>, tokens_used |-> 0, cost |-> 0, search_performed |-> TRUE,
     search_query |-> "", search_summary |-> <<>>, search_results |-> <<>>]

\* lines 337-345
InitResult ==
    [response |-> <<>>, tokens_used |-> 0, cost |-> 0, search_performed |-> FALSE,
     search_query |-> "", search_summary |-> <<>>, search_results |-> <<>>]

\* Per-token rates of lines 421-422 in millionths of a currency unit
PromptRate == 5
CompletionRate == 15

\* Outcomes of the final generation call (lines 408-413): the call raises, or
\* it returns a response whose choices and usage counters may be incomplete.
FinalReplies ==
    {[kind |-> "error", err |-> T("E1", 12), has_choice |-> FALSE,
      content |-> EmptyText, usage |-> [none |-> TRUE]],
     [kind |-> "ok", err |-> EmptyText, has_choice |-> TRUE, content |-> T("R1", 40),
      usage |-> [total_tokens |-> 150, prompt_tokens |-> 100, completion_tokens |-> 50]],
     [kind |-> "ok", err |-> EmptyText, has_choice |-> FALSE, content |-> EmptyText,
      usage |-> [total_tokens |-> 150, prompt_tokens |-> 100, completion_tokens |-> 50]],
     [kind |-> "ok", err |-> EmptyText, has_choice |-> TRUE, content |-> T("R1", 40),
      usage |-> [none |-> TRUE]],
     [kind |-> "ok", err |-> EmptyText, has_choice |-> TRUE, content |-> T("R1", 40),
      usage |-> [total_tokens |-> 150]]}

\* line 426
Apology(err) == <<T("apology", 11), err>>

\* A final step that charges every reported token at the prompt rate
Generate_TotalRate(result, freply) ==
    IF freply.kind = "error"
    THEN [result EXCEPT !.response = Apology(freply.err)]
    ELSE [result EXCEPT !.response = <<freply.content>>,
                        !.tokens_used = freply.usage.total_tokens,
                        !.cost = freply.usage.total_tokens * PromptRate]

\* lines 407-426: the try block around the final generation call, statement
\* by statement; an exception keeps the fields assigned before it
Generate(result, freply) ==
    IF freply.kind = "error"
    THEN [result EXCEPT !.response = Apology(freply.err)]
    ELSE IF ~freply.has_choice
    THEN [result EXCEPT !.response = Apology(T("IndexError", 23))]
    ELSE IF "total_tokens" \notin DOMAIN freply.usage
    THEN [result EXCEPT !.response = Apology(T("AttributeError", 50))]
    ELSE IF {"prompt_tokens", "completion_tokens"} \subseteq DOMAIN freply.usage
    THEN [result EXCEPT !.response = <<freply.content>>,
                        !.tokens_used = freply.usage.total_tokens,
                        !.cost = freply.usage.prompt_tokens * PromptRate
                                 + freply.usage.completion_tokens * CompletionRate]
    ELSE [result EXCEPT !.response = Apology(T("TypeError", 60)),
                        !.tokens_used = freply.usage.total_tokens]

\* A cache write that stores nothing
CachePut_NoWrite(cache, query, entry) == cache

\* A cache write that replaces the whole cache by the new entry
CachePut_Replace(cache, query, entry) == [k \in {query} |-> entry]

\* A cache write that keeps the entry already stored under the key
CachePut_KeepFirst(cache, query, entry) ==
    [k \in DOMAIN cache \cup {query} |-> IF k \in DOMAIN cache THEN cache[k] ELSE entry]

\* self.search_cache[search_query] = {...}: lines 375-378
CachePut(cache, query, entry) ==
    [k \in DOMAIN cache \cup {query} |-> IF k = query THEN entry ELSE cache[k]]

\* lines 369-379: the summary sm of a non-empty search is cached
Store(cache, search_query, search_results, sm) ==
    [summary |-> sm.summary,
     results |-> search_results,
     cache |-> CachePut(cache, search_query,
                        [summary |-> sm.summary, results |-> search_results]),
     calls |-> <<"cache_lookup", "search_web", "summarize">>
               \o (IF sm.model_called THEN <<"summary_model">> ELSE <<>>)
               \o <<"cache_write">>]

\* An empty search remembered in the cache under its query
CacheMiss_StoreEmpty(cache, search_query, search_results, sreply) ==
    IF search_results # <<>>
    THEN Store(cache, search_query, search_results,
               summarize_search_results(search_query, search_results, sreply))
    ELSE [summary |-> NoInfoMarker,
          results |-> <<>>,
          cache |-> CachePut(cache, search_query,
                             [summary |-> NoInfoMarker, results |-> <<>>]),
          calls |-> <<"cache_lookup", "search_web", "cache_write">>]

\* The summarizer called whatever search_web returned
CacheMiss_AlwaysSummarize(cache, search_query, search_results, sreply) ==
    Store(cache, search_query, search_results,
          summarize_search_results(search_query, search_results, sreply))

\* lines 367-383: what follows search_web on a cache miss
CacheMiss(cache, search_query, search_results, sreply) ==
    IF search_results # <<>>
    THEN Store(cache, search_query, search_results,
               summarize_search_results(search_query, search_results, sreply))
    ELSE [summary |-> NoInfoMarker,
          results |-> <<>>,
          cache |-> cache,
          calls |-> <<"cache_lookup", "search_web">>]

\* lines 359-383: cache check, search, summarize, cache write
SearchPath(cache, search_query, backend, sreply) ==
    IF search_query \in DOMAIN cache
    THEN [summary |-> cache[search_query].summary,
          results |-> cache[search_query].results,
          cache |-> cache,
          calls |-> <<"cache_lookup">>]
    ELSE CacheMiss(cache, search_query, search_web(backend).results, sreply)

\* A message list that starts from the history and puts the system message last but one
BuildMessages_HistoryFirst(system_prompt, conversation_history, user_message) ==
    conversation_history
    \o <<[role |-> "system", content |-> system_prompt]>>
    \o <<[role |-> "user", content |-> <<user_message>>]>>

\* lines 400-404
BuildMessages(system_prompt, conversation_history, user_message) ==
    <<[role |-> "system", content |-> system_prompt]>>
    \o conversation_history
    \o <<[role |-> "user", content |-> <<user_message>>]>>

\* A turn that builds its message list in the caller's list
HistoryAfter_Appended(conversation_history, user_message) ==
    Append(conversation_history, [role |-> "user", content |-> <<user_message>>])

\* The caller's conversation_history after lines 400-404: extend and append
\* act on the new list messages, the argument is only read
HistoryAfter(conversation_history, user_message) == conversation_history

\* lines 399-428: message list, final generation call, return
Finish(cache, result, system_prompt, a, freply, log, decision) ==
    [status |-> "returned",
     result |-> Generate(result, freply),
     cache |-> cache,
     calls |-> Append(log, "generate"),
     sent |-> BuildMessages(system_prompt, a.conversation_history, a.user_message),
     history |-> HistoryAfter(a.conversation_history, a.user_message),
     decision |-> decision]

\* An exception leaving chat_with_mcp
Raised(cache, log, decision) ==
    [status |-> "raised", result |-> InitResult, cache |-> cache, calls |-> log,
     sent |-> <<>>, decision |-> decision]

NoDecision == [type |-> "none", fields |-> [reason |-> "-"]]

\* lines 386-428: the turn after its search path sp
Searched(a, search_query, sp, freply, log, decision) ==
    Finish(sp.cache,
           [InitResult EXCEPT !.search_performed = TRUE,
                              !.search_query = search_query,
                              !.search_summary = sp.summary,
                              !.search_results = sp.results],
           a.system_prompt \o <<T("nn", 2)>>
               \o enhance_context(a.user_message, a.character_name, sp.summary),
           a, freply, log \o sp.calls, decision)

\* lines 354-428: the turn after should_search returned decision
Decided(cache, a, decision, backend, sreply, freply, log) ==
    IF Subscript(decision, "need_search").raised THEN Raised(cache, log, decision)
    ELSE IF ~Subscript(decision, "need_search").value
    THEN Finish(cache, InitResult, a.system_prompt, a, freply, log, decision)
    ELSE IF Subscript(decision, "search_query").raised THEN Raised(cache, log, decision)
    ELSE Searched(a, Subscript(decision, "search_query").value,
                  SearchPath(cache, Subscript(decision, "search_query").value, backend,
                             sreply),
                  freply, log, decision)

\* chat_with_mcp as a function of its arguments a, the cache and the outcomes
\* of its collaborators: lines 337-428
Turn(cache, a, dreply, backend, sreply, freply) ==
    IF ~a.enable_search
    THEN Finish(cache, InitResult, a.system_prompt, a, freply, <<>>, NoDecision)
    ELSE Decided(cache, a, should_search(dreply), backend, sreply, freply,
                 <<"decision_model">>)

----------------------------------------------------------------------------
(* Inputs of the turns *)

UserMessages == {T("ask", 7)}

Histories ==
    {<<[role |-> "user", content |-> <<T("h1", 5)>>],
       [role |-> "assistant", content |-> <<T("h2", 9)>>]>>}

Args ==
    [user_message : UserMessages,
     character_name : {T("name", 3)},
     system_prompt : {<<T("SYS", 100)>>},
     conversation_history : Histories,
     enable_search : BOOLEAN]

Raise == [kind |-> "raise", hits |-> <<>>]
Hits(h) == [kind |-> "hits", hits |-> h]

\* Backend behaviours met by the turns: every strategy raises; every strategy
\* comes back empty; the first strategy hits; the first raises and the second
\* hits pages that cannot be fetched; a hit with a null title follows a good
\* hit and the next strategy returns a long page.
TurnBackends ==
    {<<Raise, Raise, Raise>>,
     <<Hits(<<>>), Hits(<<>>), Hits(<<>>)>>,
     <<Hits(<<hOk>>), Raise, Raise>>,
     <<Raise, Hits(<<hDown, hNoHref>>), Raise>>,
     <<Hits(<<hOk, hBad>>), Hits(<<hLong>>), Raise>>}

NoReply == [kind |-> "none", parsed |-> NoDecision]
NoBackend == <<Raise, Raise, Raise>>
NoSummaryReply == [kind |-> "error", content |-> EmptyText]

\* The turn reaches the cache-miss branch (line 363)
Searches(cache, a, dreply) ==
    /\ a.enable_search
    /\ LET decision == should_search(dreply) IN
       /\ ~Subscript(decision, "need_search").raised
       /\ Subscript(decision, "need_search").value
       /\ ~Subscript(decision, "search_query").raised
       /\ Subscript(decision, "search_query").value \notin DOMAIN cache

----------------------------------------------------------------------------
(* Sequential turns on one MCPChatManager *)

NoFinalReply == [kind |-> "none", err |-> EmptyText, has_choice |-> FALSE,
                 content |-> EmptyText, usage |-> [none |-> TRUE]]

NoRet == [status |-> "none", result |-> InitResult, args |-> CHOOSE a \in Args : TRUE,
          dreply |-> NoReply, decision |-> NoDecision, freply |-> NoFinalReply,
          cache_before |-> <<>>, history_after |-> <<>>]

Count(seq, x) == Cardinality({i \in DOMAIN seq : seq[i] = x})

\* What is remembered of a finished call when the next one starts
Summary(r, log) ==
    [status |-> r.status,
     search_performed |-> r.result.search_performed,
     search_query |-> r.result.search_query,
     search_summary |-> r.result.search_summary,
     search_results |-> r.result.search_results,
     searches |-> Count(log, "search_web"),
     summarizes |-> Count(log, "summarize")]

NoSearch == [called |-> FALSE, results |-> <<>>, raised |-> FALSE, queried |-> <<>>,
             fetched |-> <<>>]

\* No direct call of the summarizer or of the page fetch has been made
NoSummarizeCall == [results |-> <<>>, sreply |-> NoSummaryReply]
NoSummary == [called |-> FALSE, summary |-> <<>>, model_called |-> FALSE]
NoFetchCall == [resp |-> [kind |-> "error", text |-> EmptyText], max_length |-> 0]
NoFetch == [called |-> FALSE, text |-> EmptyText]

Threads == {1, 2}

\* Local variables of a turn that has not started
NoLoc == [args |-> CHOOSE a \in Args : TRUE, search_query |-> "", search_summary |-> <<>>,
          search_results |-> <<>>, searched |-> FALSE, wrote |-> FALSE,
          sent |-> <<>>, result |-> InitResult]

Init ==
    /\ search_cache = <<>>
    /\ ret = NoRet
    /\ prev = Summary(NoRet, <<>>)
    /\ calls = <<>>
    /\ sent = <<>>
    /\ sw_in = <<>>
    /\ sw_out = NoSearch
    /\ sm_in = NoSummarizeCall
    /\ sm_out = NoSummary
    /\ fw_in = NoFetchCall
    /\ fw_out = NoFetch
    /\ pc = [t \in Threads |-> "idle"]
    /\ loc = [t \in Threads |-> NoLoc]
    /\ writes = <<>>

\* The state after a call whose outcome is t
Called(t, a, dreply, freply) ==
    /\ search_cache' = t.cache
    /\ ret' = [status |-> t.status, result |-> t.result, args |-> a,
               dreply |-> dreply, decision |-> t.decision, freply |-> freply,
               cache_before |-> search_cache,
               history_after |-> Get(t, "history", a.conversation_history)]
    /\ prev' = Summary(ret, calls)
    /\ calls' = t.calls
    /\ sent' = t.sent
    /\ UNCHANGED <<sw_in, sw_out, sm_in, sm_out, fw_in, fw_out, pc, loc, writes>>

\* One call of chat_with_mcp; the outcomes of collaborators the call does not
\* reach are not enumerated
chat_with_mcp ==
    \E a \in Args, freply \in FinalReplies :
      \E dreply \in (IF a.enable_search THEN DecisionReplies ELSE {NoReply}) :
        \E backend \in (IF Searches(search_cache, a, dreply) THEN TurnBackends ELSE {NoBackend}),
           sreply \in (IF Searches(search_cache, a, dreply) THEN SummaryReplies ELSE {NoSummaryReply}) :
          Called(Turn(search_cache, a, dreply, backend, sreply, freply), a, dreply, freply)

Next == chat_with_mcp

Spec == Init /\ [][Next]_vars

----------------------------------------------------------------------------
(* Direct calls of search_web: one call per backend behaviour *)

InitSearch ==
    /\ search_cache = <<>>
    /\ ret = NoRet
    /\ prev = Summary(NoRet, <<>>)
    /\ calls = <<>>
    /\ sent = <<>>
    /\ sw_in \in Backends
    /\ sw_out = NoSearch
    /\ sm_in = NoSummarizeCall
    /\ sm_out = NoSummary
    /\ fw_in = NoFetchCall
    /\ fw_out = NoFetch
    /\ pc = [t \in Threads |-> "idle"]
    /\ loc = [t \in Threads |-> NoLoc]
    /\ writes = <<>>

search_web_call ==
    /\ ~sw_out.called
    /\ sw_out' = search_web(sw_in)
    /\ UNCHANGED <<search_cache, ret, prev, calls, sent, sw_in, sm_in, sm_out, fw_in, fw_out,
                 pc, loc, writes>>

NextSearch == search_web_call

SpecSearch == InitSearch /\ [][NextSearch]_vars

----------------------------------------------------------------------------
(* Direct calls of summarize_search_results: one call per result list and  *)
(* model reply                                                              *)

MaxResults == 6

\* Records as search_web builds them; titles and page texts of any length
rPlain     == [title |-> T("T1", 4), snippet |-> T("S1", 20),
               full_content |-> T("P1", 120), url |-> "u1"]
rLongTitle == [title |-> T("T6", 5000), snippet |-> T("S6", 20),
               full_content |-> WithDots(T("P3", 3000)), url |-> "u3"]
rBlank     == [title |-> EmptyText, snippet |-> EmptyText,
               full_content |-> EmptyText, url |-> ""]

ResultRecords == {rPlain, rLongTitle, rBlank}

\* The summarizer model raises, or answers with some content, with "" or
\* with no content at all (lines 238-246)
SummarizeReplies ==
    SummaryReplies \cup {[kind |-> "ok", content |-> EmptyText],
                         [kind |-> "ok", content |-> NONE]}

\* len() of a text made of pieces
RECURSIVE TextLen(_)
TextLen(pieces) ==
    IF pieces = <<>> THEN 0 ELSE Head(pieces).n + TextLen(Tail(pieces))

InitSummarize ==
    /\ search_cache = <<>>
    /\ ret = NoRet
    /\ prev = Summary(NoRet, <<>>)
    /\ calls = <<>>
    /\ sent = <<>>
    /\ sw_in = <<>>
    /\ sw_out = NoSearch
    /\ sm_in \in [results : SeqsUpTo(ResultRecords, MaxResults), sreply : SummarizeReplies]
    /\ sm_out = NoSummary
    /\ fw_in = NoFetchCall
    /\ fw_out = NoFetch
    /\ pc = [t \in Threads |-> "idle"]
    /\ loc = [t \in Threads |-> NoLoc]
    /\ writes = <<>>

\* The outcome of a direct call
Summarized(s) == [called |-> TRUE, summary |-> s.summary, model_called |-> s.model_called]

summarize_call ==
    /\ ~sm_out.called
    /\ sm_out' = Summarized(summarize_search_results("qa", sm_in.results, sm_in.sreply))
    /\ UNCHANGED <<search_cache, ret, prev, calls, sent, sw_in, sw_out, sm_in, fw_in, fw_out,
                 pc, loc, writes>>

NextSummarize == summarize_call

SpecSummarize == InitSummarize /\ [][NextSummarize]_vars

----------------------------------------------------------------------------
(* Turns over chosen input sets, the last turn only being remembered *)

\* The state after a call whose outcome is t
Answered(t, a, dreply, freply) ==
    /\ search_cache' = t.cache
    /\ ret' = [status |-> t.status, result |-> t.result, args |-> a,
               dreply |-> dreply, decision |-> t.decision, freply |-> freply,
               cache_before |-> search_cache,
               history_after |-> Get(t, "history", a.conversation_history)]
    /\ calls' = t.calls
    /\ sent' = t.sent
    /\ UNCHANGED <<prev, sw_in, sw_out, sm_in, sm_out, fw_in, fw_out, pc, loc, writes>>

\* One call of chat_with_mcp with arguments from A, decision replies from D,
\* backends from B, summarizer replies from S and final replies from F
TurnOver(A, D, B, S, F) ==
    \E a \in A, freply \in F :
      \E dreply \in (IF a.enable_search THEN D ELSE {NoReply}) :
        \E backend \in (IF Searches(search_cache, a, dreply) THEN B ELSE {NoBackend}),
           sreply \in (IF Searches(search_cache, a, dreply) THEN S ELSE {NoSummaryReply}) :
          Answered(Turn(search_cache, a, dreply, backend, sreply, freply), a, dreply, freply)

\* The final call raises, or answers with a choice and all usage counters
PlainFinalReplies ==
    {r \in FinalReplies :
        r.kind = "error" \/ (r.has_choice /\ "prompt_tokens" \in DOMAIN r.usage)}

----------------------------------------------------------------------------
(* The summarizer called directly and by the turns *)

InitEmptyList ==
    /\ search_cache = <<>>
    /\ ret = NoRet
    /\ prev = Summary(NoRet, <<>>)
    /\ calls = <<>>
    /\ sent = <<>>
    /\ sw_in = <<>>
    /\ sw_out = NoSearch
    /\ sm_in \in [results : {<<>>, <<rPlain>>}, sreply : SummaryReplies]
    /\ sm_out = NoSummary
    /\ fw_in = NoFetchCall
    /\ fw_out = NoFetch
    /\ pc = [t \in Threads |-> "idle"]
    /\ loc = [t \in Threads |-> NoLoc]
    /\ writes = <<>>

chat_turn == TurnOver(Args, DecisionReplies, TurnBackends, SummaryReplies, PlainFinalReplies)

NextEmptyList == summarize_call \/ chat_turn

SpecEmptyList == InitEmptyList /\ [][NextEmptyList]_vars

----------------------------------------------------------------------------
(* Turns with conversation histories of every length up to MaxHistory *)

MaxHistory == 2

HistoryMessages ==
    {[role |-> "user", content |-> <<T("h1", 5)>>],
     [role |-> "assistant", content |-> <<T("h2", 9)>>]}

HistoryArgs ==
    [user_message : UserMessages,
     character_name : {T("name", 3)},
     system_prompt : {<<T("SYS", 100)>>},
     conversation_history : SeqsUpTo(HistoryMessages, MaxHistory),
     enable_search : BOOLEAN]

\* The decision call fails, or its reply carries both decision keys
HistoryDecisions ==
    {d \in DecisionReplies :
        \/ d.kind = "error"
        \/ /\ d.parsed.type = "object"
           /\ {"need_search", "search_query"} \subseteq DOMAIN d.parsed.fields}

\* Every strategy comes back empty, or the first one hits
HistoryBackends ==
    {<<Hits(<<>>), Hits(<<>>), Hits(<<>>)>>, <<Hits(<<hOk>>), Raise, Raise>>}

chat_history ==
    TurnOver(HistoryArgs, HistoryDecisions, HistoryBackends, SummaryReplies,
             PlainFinalReplies)

NextHistory == chat_history

SpecHistory == Init /\ [][NextHistory]_vars

----------------------------------------------------------------------------
(* Direct calls of fetch_webpage_content: one call per response and limit *)

MaxTextLen == 8
MaxLimit == 6

\* The GET fails, or answers with a page whose cleaned text has some length
\* around the limits tried
FetchResponses ==
    {[kind |-> "error", text |-> EmptyText]}
    \cup {[kind |-> "page", text |-> T("P", n)] :
             n \in (0..MaxTextLen) \cup {DefaultMaxLength, DefaultMaxLength + 1}}

FetchLimits == (0..MaxLimit) \cup {DefaultMaxLength}

InitFetch ==
    /\ search_cache = <<>>
    /\ ret = NoRet
    /\ prev = Summary(NoRet, <<>>)
    /\ calls = <<>>
    /\ sent = <<>>
    /\ sw_in = <<>>
    /\ sw_out = NoSearch
    /\ sm_in = NoSummarizeCall
    /\ sm_out = NoSummary
    /\ fw_in \in [resp : FetchResponses, max_length : FetchLimits]
    /\ fw_out = NoFetch
    /\ pc = [t \in Threads |-> "idle"]
    /\ loc = [t \in Threads |-> NoLoc]
    /\ writes = <<>>

fetch_call ==
    /\ ~fw_out.called
    /\ fw_out' = [called |-> TRUE, text |-> FetchedText(fw_in.resp, fw_in.max_length)]
    /\ UNCHANGED <<search_cache, ret, prev, calls, sent, sw_in, sw_out, sm_in, sm_out, fw_in,
                 pc, loc, writes>>

NextFetch == fetch_call

SpecFetch == InitFetch /\ [][NextFetch]_vars

----------------------------------------------------------------------------
(* Turns whose final call reports token counts of every size up to MaxTokens *)

MaxTokens == 2

PromptCounts == (0..MaxTokens) \cup {100}
CompletionCounts == (0..MaxTokens) \cup {50}

\* The provider's total is reported on its own: it may count more than the
\* prompt and completion tokens
Usages ==
    {[total_tokens |-> pt + ct + extra, prompt_tokens |-> pt, completion_tokens |-> ct] :
        pt \in PromptCounts, ct \in CompletionCounts, extra \in {0, 7}}

CostFinalReplies ==
    {r \in FinalReplies : r.kind = "error"}
    \cup {[kind |-> "ok", err |-> EmptyText, has_choice |-> TRUE, content |-> T("R1", 40),
           usage |-> u] : u \in Usages}

CostArgs ==
    [user_message : UserMessages,
     character_name : {T("name", 3)},
     system_prompt : {<<T("SYS", 100)>>},
     conversation_history : Histories,
     enable_search : BOOLEAN,
     model : {"gpt-4o-ca", "gpt-4o-mini"}]

\* The decision reply asks for no search, or for a search of "qa"
CostDecisions ==
    {d \in HistoryDecisions :
        /\ d.kind # "error"
        /\ d.parsed.fields.search_query \in {"", "qa"}}

chat_cost ==
    TurnOver(CostArgs, CostDecisions, HistoryBackends, SummaryReplies, CostFinalReplies)

NextCost == chat_cost

SpecCost == Init /\ [][NextCost]_vars

----------------------------------------------------------------------------
(* Two turns running concurrently on one MCPChatManager.  chat_with_mcp takes *)
(* no lock; a turn can be preempted wherever it waits for a collaborator, so  *)
(* each step below ends where the next blocking call or cache access begins.  *)

\* lines 348-355: decision and the reading of its fields
t_decide(t) ==
    /\ pc[t] = "idle"
    /\ \E a \in Args :
       \E dreply \in (IF a.enable_search THEN DecisionReplies ELSE {NoReply}) :
         LET decision == should_search(dreply)
             need == Subscript(decision, "need_search")
             sq == Subscript(decision, "search_query")
         IN  IF ~a.enable_search
             THEN /\ pc' = [pc EXCEPT ![t] = "generate"]
                  /\ loc' = [loc EXCEPT ![t].args = a]
             ELSE IF need.raised
             THEN /\ pc' = [pc EXCEPT ![t] = "raised"]
                  /\ loc' = [loc EXCEPT ![t].args = a]
             ELSE IF ~need.value
             THEN /\ pc' = [pc EXCEPT ![t] = "generate"]
                  /\ loc' = [loc EXCEPT ![t].args = a]
             ELSE IF sq.raised
             THEN /\ pc' = [pc EXCEPT ![t] = "raised"]
                  /\ loc' = [loc EXCEPT ![t].args = a]
             ELSE /\ pc' = [pc EXCEPT ![t] = "lookup"]
                  /\ loc' = [loc EXCEPT ![t].args = a, ![t].search_query = sq.value,
                                        ![t].searched = TRUE]
    /\ UNCHANGED <<search_cache, ret, prev, calls, sent, sw_in, sw_out, sm_in, sm_out, fw_in,
                 fw_out, writes>>

\* lines 359-362: cache check and, on a hit, the two reads.  With two turns the
\* entry a turn hits was written by the other turn, which writes only once, so
\* no write can fall between the check and the reads.
t_lookup(t) ==
    /\ pc[t] = "lookup"
    /\ IF loc[t].search_query \in DOMAIN search_cache
       THEN /\ loc' = [loc EXCEPT
                         ![t].search_summary = search_cache[loc[t].search_query].summary,
                         ![t].search_results = search_cache[loc[t].search_query].results]
            /\ pc' = [pc EXCEPT ![t] = "generate"]
       ELSE /\ pc' = [pc EXCEPT ![t] = "search"]
            /\ loc' = loc
    /\ UNCHANGED <<search_cache, ret, prev, calls, sent, sw_in, sw_out, sm_in, sm_out, fw_in,
                 fw_out, writes>>

\* lines 365-367 and 380-383: search_web and the empty-result branch
t_search(t) ==
    /\ pc[t] = "search"
    /\ \E backend \in TurnBackends :
         LET search_results == search_web(backend).results IN
         IF search_results # <<>>
         THEN /\ loc' = [loc EXCEPT ![t].search_results = search_results]
              /\ pc' = [pc EXCEPT ![t] = "summarize"]
         ELSE /\ loc' = [loc EXCEPT ![t].search_results = <<>>,
                                    ![t].search_summary = NoInfoMarker]
              /\ pc' = [pc EXCEPT ![t] = "generate"]
    /\ UNCHANGED <<search_cache, ret, prev, calls, sent, sw_in, sw_out, sm_in, sm_out, fw_in,
                 fw_out, writes>>

\* lines 369-372: summarize_search_results
t_summarize(t) ==
    /\ pc[t] = "summarize"
    /\ \E sreply \in SummaryReplies :
         loc' = [loc EXCEPT ![t].search_summary =
                   summarize_search_results(loc[t].search_query, loc[t].search_results,
                                            sreply).summary]
    /\ pc' = [pc EXCEPT ![t] = "store"]
    /\ UNCHANGED <<search_cache, ret, prev, calls, sent, sw_in, sw_out, sm_in, sm_out, fw_in,
                 fw_out, writes>>

\* lines 375-378: the cache write
t_store(t) ==
    /\ pc[t] = "store"
    /\ LET entry == [summary |-> loc[t].search_summary, results |-> loc[t].search_results] IN
       /\ search_cache' = CachePut(search_cache, loc[t].search_query, entry)
       /\ writes' = Append(writes, [t |-> t, search_query |-> loc[t].search_query,
                                    entry |-> entry])
    /\ loc' = [loc EXCEPT ![t].wrote = TRUE]
    /\ pc' = [pc EXCEPT ![t] = "generate"]
    /\ UNCHANGED <<ret, prev, calls, sent, sw_in, sw_out, sm_in, sm_out, fw_in, fw_out>>

\* lines 386-397: the result fields of a turn with local variables l
LocalResult(l) ==
    IF l.searched
    THEN [InitResult EXCEPT !.search_performed = TRUE,
                            !.search_query = l.search_query,
                            !.search_summary = l.search_summary,
                            !.search_results = l.search_results]
    ELSE InitResult

\* lines 386-392: the system prompt of a turn with local variables l
LocalPrompt(l) ==
    IF l.searched
    THEN l.args.system_prompt \o <<T("nn", 2)>>
         \o enhance_context(l.args.user_message, l.args.character_name, l.search_summary)
    ELSE l.args.system_prompt

\* lines 386-428: result fields, message list, final generation call, return
t_generate(t) ==
    /\ pc[t] = "generate"
    /\ \E freply \in FinalReplies :
         loc' = [loc EXCEPT
                   ![t].result = Generate(LocalResult(loc[t]), freply),
                   ![t].sent = BuildMessages(LocalPrompt(loc[t]),
                                             loc[t].args.conversation_history,
                                             loc[t].args.user_message)]
    /\ pc' = [pc EXCEPT ![t] = "done"]
    /\ UNCHANGED <<search_cache, ret, prev, calls, sent, sw_in, sw_out, sm_in, sm_out, fw_in,
                 fw_out, writes>>

NextConc ==
    \E t \in Threads :
      \/ t_decide(t)
      \/ t_lookup(t)
      \/ t_search(t)
      \/ t_summarize(t)
      \/ t_store(t)
      \/ t_generate(t)

SpecConc == Init /\ [][NextConc]_vars

----------------------------------------------------------------------------
(* Properties *)

Returned == ret.status = "returned"

SevenFields ==
    {"response", "tokens_used", "cost", "search_performed", "search_query",
     "search_summary", "search_results"}

\* The decision value says need_search = true
NeedsSearch(decision) ==
    /\ decision.type = "object"
    /\ "need_search" \in DOMAIN decision.fields
    /\ decision.fields.need_search = TRUE

\* The final generation step failed: the call raised, or reading the content
\* or one of the usage counters raised
FinalFailed(freply) ==
    \/ freply.kind = "error"
    \/ ~freply.has_choice
    \/ ~({"total_tokens", "prompt_tokens", "completion_tokens"} \subseteq DOMAIN freply.usage)

\* The last two calls both took the search path with the same search_query
SameQueryPair ==
    /\ prev.status = "returned"
    /\ Returned
    /\ prev.search_performed
    /\ ret.result.search_performed
    /\ prev.search_query = ret.result.search_query

\* C1 as stated: for two consecutive calls whose decisions return
\* need_search = true with the same search_query, exactly one search_web +
\* summarize sequence is performed over the two calls, the second call performs
\* none, and the second call's search_summary equals the first's, whatever the
\* outcome of the first call's search (an empty search included).
C1_AnyFirstOutcome ==
    SameQueryPair =>
        /\ Count(calls, "search_web") = 0
        /\ Count(calls, "summarize") = 0
        /\ prev.searches + Count(calls, "search_web") = 1
        /\ prev.summarizes + Count(calls, "summarize") = 1
        /\ ret.result.search_summary = prev.search_summary

\* C1 amended: when the first of two consecutive same-query calls returned a
\* non-empty search_results, the second call performs no search_web and no
\* summarize and returns the first call's search_summary; if the first call
\* missed the cache, exactly one search_web + summarize sequence is performed
\* over the two calls.
C1_CachedAfterNonEmptySearch ==
    (SameQueryPair /\ prev.search_results # <<>>) =>
        /\ Count(calls, "search_web") = 0
        /\ Count(calls, "summarize") = 0
        /\ ret.result.search_summary = prev.search_summary
        /\ ret.result.search_results = prev.search_results
        /\ prev.searches = 1 =>
              /\ prev.searches + Count(calls, "search_web") = 1
              /\ prev.summarizes + Count(calls, "summarize") = 1

\* C1 witness: a miss with a non-empty search, then a hit on the same query
C1_Witness ==
    /\ SameQueryPair
    /\ prev.searches = 1
    /\ prev.search_results # <<>>
    /\ Count(calls, "cache_lookup") = 1

\* C2 as stated: chat_with_mcp never raises to its caller and returns a result
\* holding all seven fields, for every combination of collaborator outcomes.
C2_NeverRaises ==
    ret.status # "none" =>
        /\ ret.status = "returned"
        /\ DOMAIN ret.result = SevenFields

\* C3: when the decision model call errors in a call with enable_search = true,
\* search_performed is false, no cache lookup, search or summarize call is
\* made, and the first message sent to the final generation call is the system
\* message holding exactly the caller's system_prompt.
C3_DecisionFailSafe ==
    (ret.status # "none" /\ ret.args.enable_search /\ ret.dreply.kind = "error") =>
        /\ Returned
        /\ ret.result.search_performed = FALSE
        /\ \A i \in DOMAIN calls :
              calls[i] \notin {"cache_lookup", "search_web", "summarize", "summary_model",
                               "cache_write"}
        /\ Len(sent) >= 1
        /\ sent[1] = [role |-> "system", content |-> ret.args.system_prompt]

\* C3 witness: a returned call whose decision model call raised
C3_Witness ==
    /\ Returned
    /\ ret.args.enable_search
    /\ ret.dreply.kind = "error"
    /\ Count(calls, "decision_model") = 1

\* C4: search_performed is true exactly when enable_search was true and the
\* decision returned need_search = true; then search_query is the decision's
\* and search_summary / search_results are those used for the augmented prompt
\* (the cached ones on a hit, the stored ones after a fresh non-empty search);
\* otherwise search_query = "", search_summary = "", search_results = [] and
\* the system message is the original system_prompt; with enable_search = false
\* the decision model is not called.
C4_SearchFields ==
    Returned =>
        LET r == ret.result
            a == ret.args
            q == r.search_query
        IN
        /\ r.search_performed <=> (a.enable_search /\ NeedsSearch(ret.decision))
        /\ r.search_performed =>
              /\ q = ret.decision.fields.search_query
              /\ sent[1] = [role |-> "system",
                            content |-> a.system_prompt \o <<T("nn", 2)>> \o
                                        enhance_context(a.user_message, a.character_name,
                                                        r.search_summary)]
              /\ q \in DOMAIN ret.cache_before =>
                    /\ r.search_summary = ret.cache_before[q].summary
                    /\ r.search_results = ret.cache_before[q].results
              /\ (q \notin DOMAIN ret.cache_before /\ r.search_results # <<>>) =>
                    search_cache[q] = [summary |-> r.search_summary,
                                       results |-> r.search_results]
              /\ (q \notin DOMAIN ret.cache_before /\ r.search_results = <<>>) =>
                    r.search_summary = NoInfoMarker
        /\ ~r.search_performed =>
              /\ q = ""
              /\ r.search_summary = <<>>
              /\ r.search_results = <<>>
              /\ sent[1] = [role |-> "system", content |-> a.system_prompt]
        /\ ~a.enable_search => Count(calls, "decision_model") = 0

\* C4 witness: a call that took the search path, after one that did not search
\* because the decision said need_search = false
C4_Witness ==
    /\ Returned
    /\ ret.result.search_performed
    /\ ret.result.search_results # <<>>
    /\ prev.status = "returned"
    /\ ~prev.search_performed

\* C5 as stated: search_web never raises and returns either an empty list or a
\* list in which every entry has a non-empty url, also when a hit has no href.
C5_NonEmptyUrls ==
    sw_out.called =>
        /\ ~sw_out.raised
        /\ \A i \in DOMAIN sw_out.results : sw_out.results[i].url # ""

\* The first strategy whose backend call returned at least one hit (0 if none)
FirstWithHits(backend) ==
    LET W == {i \in DOMAIN backend : backend[i].kind = "hits" /\ backend[i].hits # <<>>} IN
    IF W = {} THEN 0 ELSE CHOOSE i \in W : \A j \in W : i <= j

\* C6 as stated: the list returned by search_web holds the records of exactly
\* one strategy, the first whose backend call returned at least one hit, one
\* record per hit in hit order, also when an exception interrupts the assembly
\* of a strategy's records.
C6_OneStrategy ==
    sw_out.called =>
        LET w == FirstWithHits(sw_in) IN
        IF w = 0 THEN sw_out.results = <<>>
        ELSE sw_out.results = [k \in 1..Len(sw_in[w].hits) |-> MakeRecord(sw_in[w].hits[k])]

\* C7 as stated: when the final generation step fails (the call raises or a
\* step of reading content and usage raises), response is the apology embedding
\* the error, tokens_used = 0, cost = 0 and the search fields keep the values
\* set by the search path.
C7_FailureLeavesZero ==
    (Returned /\ FinalFailed(ret.freply)) =>
        /\ Len(ret.result.response) = 2
        /\ ret.result.response[1] = T("apology", 11)
        /\ ret.result.tokens_used = 0
        /\ ret.result.cost = 0
        /\ ret.result.search_performed = (ret.args.enable_search /\ NeedsSearch(ret.decision))

\* The decision step failed: the call raised, the reply is not JSON, or the
\* decoded reply does not match the three-field schema
DecisionStepFailed(dreply) ==
    \/ dreply.kind = "error"
    \/ dreply.parsed.type # "object"
    \/ ~({"need_search", "search_query", "reason"} \subseteq DOMAIN dreply.parsed.fields)

\* C8 as stated: should_search returns the safe default on every failure of
\* the decision step, malformed replies included, so every value it returns
\* has the three fields need_search, search_query and reason.
C8_SafeDefault ==
    (ret.status # "none" /\ ret.args.enable_search) =>
        /\ ret.decision.type = "object"
        /\ {"need_search", "search_query", "reason"} \subseteq DOMAIN ret.decision.fields
        /\ DecisionStepFailed(ret.dreply) => ret.decision = decision_default

\* C9: in sequential execution a cache key is written at most once: a key
\* present in search_cache is never written again, never changes its value and
\* is never removed, and a turn writes at most one key.
C9_WriteOnce ==
    [][ /\ \A q \in DOMAIN search_cache :
              /\ q \in DOMAIN search_cache'
              /\ search_cache'[q] = search_cache[q]
        /\ Count(calls', "cache_write") <= 1
        /\ Count(calls', "cache_write") = 1 =>
              /\ ret'.result.search_query \notin DOMAIN search_cache
              /\ DOMAIN search_cache' = DOMAIN search_cache \cup {ret'.result.search_query}
        /\ Count(calls', "cache_write") = 0 => search_cache' = search_cache ]_vars

\* C9 witness: both queries are cached and the last turn asked for a cached one
C9_Witness ==
    /\ Returned
    /\ ret.result.search_performed
    /\ ret.result.search_query \in DOMAIN ret.cache_before
    /\ DOMAIN search_cache = Queries

\* Both concurrent turns finished after writing the cache under the same query
BothWrote ==
    /\ \A t \in Threads : pc[t] = "done" /\ loc[t].wrote
    /\ \A t, u \in Threads : loc[t].search_query = loc[u].search_query

\* C10 as stated: when two concurrent turns with the same uncached query both
\* search, summarize and write, the writes are overwrites of equal values: the
\* cache entry after both writes equals the entry after the first write, and
\* each turn's returned search_summary equals the summary finally stored.
C10_EqualWrites ==
    BothWrote =>
        LET q == writes[1].search_query IN
        /\ search_cache[q] = writes[1].entry
        /\ \A t \in Threads : loc[t].result.search_summary = search_cache[q].summary

\* C10 amended: both turns search, summarize and write; the later write
\* overwrites the earlier one, so the cache entry after both writes is the
\* later writer's entry, each turn returns the summary and results that it
\* wrote itself, and the later writer's returned summary is the stored one.
C10_LastWriteWins ==
    BothWrote =>
        LET q == writes[1].search_query
            last == writes[Len(writes)]
        IN
        /\ Len(writes) = Cardinality(Threads)
        /\ \A i \in DOMAIN writes : writes[i].search_query = q
        /\ search_cache[q] = last.entry
        /\ loc[last.t].result.search_summary = search_cache[q].summary
        /\ \A i \in DOMAIN writes :
              /\ loc[writes[i].t].result.search_summary = writes[i].entry.summary
              /\ loc[writes[i].t].result.search_results = writes[i].entry.results

\* C10 witness: both turns wrote, with different values
C10_Witness ==
    /\ BothWrote
    /\ writes[1].entry # writes[2].entry

----------------------------------------------------------------------------
(* C11 *)

\* The model reply the summarizer returned as it came
ModelAnswered == sm_in.sreply.kind = "ok" /\ sm_in.sreply.content # NONE

\* C11: summarize_search_results returns a non-empty text whatever the result
\* list and the model outcome: the marker for an empty list, the model's
\* content when the model call succeeds, and otherwise the fallback built
\* from at most the first five results.
C11_NonEmptySummary ==
    sm_out.called =>
        /\ TextLen(sm_out.summary) > 0
        /\ sm_out.summary = IF sm_in.results = <<>> THEN NoInfoMarker
                            ELSE IF ModelAnswered THEN <<sm_in.sreply.content>>
                            ELSE FallbackSummary(sm_in.results)

\* The three tiers alone, without the non-emptiness
C11_Tiers ==
    sm_out.called =>
        sm_out.summary = IF sm_in.results = <<>> THEN NoInfoMarker
                         ELSE IF ModelAnswered THEN <<sm_in.sreply.content>>
                         ELSE FallbackSummary(sm_in.results)

----------------------------------------------------------------------------
(* C12 *)

\* The last turn took the cache-miss branch and its search came back empty
EmptySearch ==
    /\ Returned
    /\ Count(calls, "search_web") = 1
    /\ ret.result.search_results = <<>>

\* C12: summarize_search_results called with an empty list returns the
\* no-information marker without calling the model, and a turn calls the
\* summarizer only with a non-empty list: after an empty search the turn
\* sets the marker itself.
C12_EmptyList ==
    /\ (sm_out.called /\ sm_in.results = <<>>) =>
           (sm_out.summary = NoInfoMarker /\ ~sm_out.model_called)
    /\ Count(calls, "summarize") > 0 =>
           (ret.result.search_results # <<>> /\ Count(calls, "search_web") = 1)
    /\ EmptySearch =>
           /\ ret.result.search_summary = NoInfoMarker
           /\ Count(calls, "summarize") = 0
           /\ Count(calls, "summary_model") = 0

\* A direct call with an empty list has returned, and the last turn's search
\* came back empty
C12_Witness ==
    /\ sm_out.called
    /\ sm_in.results = <<>>
    /\ sm_in.sreply.kind = "ok"
    /\ EmptySearch

----------------------------------------------------------------------------
(* C13 *)

\* The system prompt the final call must see
ExpectedSystemPrompt ==
    IF ret.result.search_performed
    THEN ret.args.system_prompt \o <<T("nn", 2)>>
         \o enhance_context(ret.args.user_message, ret.args.character_name,
                            ret.result.search_summary)
    ELSE ret.args.system_prompt

\* C13: the message list of the final generation call is one system message
\* (the system prompt, followed by the enhancement context when the search
\* path ran), then the conversation history element by element in its order,
\* then the user message; it has len(conversation_history) + 2 elements.
C13_MessageList ==
    Returned =>
        /\ Len(sent) = Len(ret.args.conversation_history) + 2
        /\ sent[1] = [role |-> "system", content |-> ExpectedSystemPrompt]
        /\ \A i \in DOMAIN ret.args.conversation_history :
               sent[i + 1] = ret.args.conversation_history[i]
        /\ sent[Len(sent)] = [role |-> "user", content |-> <<ret.args.user_message>>]

\* A searching turn with a history of two different messages
C13_Witness ==
    /\ Returned
    /\ ret.result.search_performed
    /\ Len(ret.args.conversation_history) = 2
    /\ ret.args.conversation_history[1] # ret.args.conversation_history[2]
    /\ Len(sent) = 4

----------------------------------------------------------------------------
(* C14 *)

\* C14: fetch_webpage_content(url, max_length=N) returns the first N
\* characters of the cleaned page text followed by "..." (N + 3 characters)
\* when the text is longer than N, the text unchanged when it has at most N
\* characters, and "" when the request or the parsing raised.
C14_Truncation ==
    fw_out.called =>
        IF fw_in.resp.kind = "error" THEN fw_out.text = EmptyText
        ELSE IF fw_in.resp.text.n > fw_in.max_length
        THEN /\ fw_out.text.id = fw_in.resp.text.id
             /\ fw_out.text.n = fw_in.max_length + 3
             /\ fw_out.text.dots
        ELSE fw_out.text = fw_in.resp.text /\ ~fw_out.text.dots

\* A page one character longer than the default limit was cut
C14_Witness ==
    /\ fw_out.called
    /\ fw_in.resp.kind = "page"
    /\ fw_in.max_length = DefaultMaxLength
    /\ fw_in.resp.text.n = DefaultMaxLength + 1
    /\ fw_out.text.n = DefaultMaxLength + 3

----------------------------------------------------------------------------
(* C15 *)

\* The final generation call of the last turn succeeded
FinalSucceeded == Returned /\ ret.freply.kind = "ok"

\* C15: after a successful final generation call, cost is 5 millionths per
\* reported prompt token plus 15 millionths per reported completion token
\* (1250 for 100 and 50 tokens) and tokens_used is the reported total,
\* whatever the model name, the search path and the cache.
C15_Cost ==
    FinalSucceeded =>
        /\ ret.result.cost = 5 * ret.freply.usage.prompt_tokens
                             + 15 * ret.freply.usage.completion_tokens
        /\ ret.result.tokens_used = ret.freply.usage.total_tokens
        /\ (ret.freply.usage.prompt_tokens = 100 /\ ret.freply.usage.completion_tokens = 50)
               => ret.result.cost = 1250

\* 100 prompt and 50 completion tokens on a turn served from the cache with
\* the second model name, the total counting 7 tokens more
C15_Witness ==
    /\ FinalSucceeded
    /\ ret.freply.usage.prompt_tokens = 100
    /\ ret.freply.usage.completion_tokens = 50
    /\ ret.freply.usage.total_tokens = 157
    /\ ret.result.cost = 1250
    /\ ret.args.model = "gpt-4o-mini"
    /\ ret.result.search_performed
    /\ Count(calls, "search_web") = 0

----------------------------------------------------------------------------
(* C16, C17 *)

\* The strategies 1..n in list order
FirstStrategies(n) == [k \in 1..n |-> k]

\* C16 as stated: search_web queries the backend with the strategies in the
\* order (no region, moderate), (wt-wt, moderate), (cn-zh, off); a strategy
\* that raises or returns no hits is followed by exactly the next one; no
\* strategy after the first one with at least one hit is queried; at most
\* three queries are made; when every strategy raises or returns nothing the
\* result is the empty list.
C16_StrategyOrder ==
    sw_out.called =>
        /\ search_strategies = << [region |-> "None",  safesearch |-> "moderate"],
                                  [region |-> "wt-wt", safesearch |-> "moderate"],
                                  [region |-> "cn-zh", safesearch |-> "off"] >>
        /\ Len(sw_out.queried) <= 3
        /\ sw_out.queried =
               FirstStrategies(IF FirstWithHits(sw_in) = 0 THEN 3 ELSE FirstWithHits(sw_in))
        /\ FirstWithHits(sw_in) = 0 => sw_out.results = <<>>

\* What C16 keeps when an exception may interrupt the assembly of a
\* strategy's records: the order, the bound of three queries and the empty
\* result when no strategy has hits
C16_OrderAndBound ==
    sw_out.called =>
        /\ \E n \in 1..3 : sw_out.queried = FirstStrategies(n)
        /\ \A k \in DOMAIN sw_out.queried :
               k < Len(sw_out.queried) =>
                   \/ sw_in[k].kind = "raise"
                   \/ sw_in[k].hits = <<>>
                   \/ \E h \in DOMAIN sw_in[k].hits : HitRaises(sw_in[k].hits[h])
        /\ FirstWithHits(sw_in) = 0 => (sw_out.results = <<>> /\ Len(sw_out.queried) = 3)

\* The text line 178 stores for a hit: the fetched page, or the snippet when
\* the fetch failed or the page was empty
StoredContent(r) ==
    IF Truthy(FetchedText(HttpGet(Get(r, "href", "")), DefaultMaxLength))
    THEN FetchedText(HttpGet(Get(r, "href", "")), DefaultMaxLength)
    ELSE Get(r, "body", EmptyText)

\* C17 as stated: for the first strategy with hits search_web returns one
\* record per hit in hit order, the pages having been fetched one by one in
\* that order; a record's full_content is the fetched text when that is
\* non-empty and the hit's snippet otherwise; the number of records is the
\* number of hits whichever fetches fail.
C17_RecordPerHit ==
    (sw_out.called /\ FirstWithHits(sw_in) # 0) =>
        /\ Len(sw_out.results) = Len(sw_in[FirstWithHits(sw_in)].hits)
        /\ Len(sw_out.fetched) = Len(sw_in[FirstWithHits(sw_in)].hits)
        /\ \A k \in DOMAIN sw_out.results :
               /\ k \in DOMAIN sw_in[FirstWithHits(sw_in)].hits
               /\ sw_out.fetched[k] = Get(sw_in[FirstWithHits(sw_in)].hits[k], "href", "")
               /\ sw_out.results[k].full_content =
                      StoredContent(sw_in[FirstWithHits(sw_in)].hits[k])

\* No hit of the backend has a null title
NoNullTitle ==
    \A i \in DOMAIN sw_in : \A h \in DOMAIN sw_in[i].hits : ~HitRaises(sw_in[i].hits[h])

\* C17 for backends whose hits all carry a title
C17_WhenTitlesPresent == NoNullTitle => C17_RecordPerHit

----------------------------------------------------------------------------
(* C18 *)

\* The call before the last one searched the query of the last call and
\* found nothing
PrevSearchEmpty ==
    /\ prev.status = "returned"
    /\ prev.search_performed
    /\ prev.searches = 1
    /\ prev.search_results = <<>>
    /\ Returned
    /\ ret.result.search_performed
    /\ ret.result.search_query = prev.search_query

\* C18: a turn whose search on a cache miss comes back empty calls no
\* summarizer and writes no cache entry, yet takes the search path with the
\* no-information marker as summary, an empty result list, search_performed
\* true and the marker inside the system prompt sent; so every cache entry
\* holds a non-empty result list, and the next turn asking for that query
\* searches again.
C18_EmptySearchNotCached ==
    /\ EmptySearch =>
           /\ Count(calls, "summarize") = 0
           /\ Count(calls, "cache_write") = 0
           /\ search_cache = ret.cache_before
           /\ ret.result.search_performed
           /\ ret.result.search_summary = NoInfoMarker
           /\ sent[1].content =
                  ret.args.system_prompt \o <<T("nn", 2)>>
                  \o enhance_context(ret.args.user_message, ret.args.character_name,
                                     NoInfoMarker)
    /\ \A q \in DOMAIN search_cache : search_cache[q].results # <<>>
    /\ PrevSearchEmpty => Count(calls, "search_web") = 1

\* Two turns in a row searched the same query and found nothing, while the
\* cache holds another query
C18_Witness ==
    /\ PrevSearchEmpty
    /\ EmptySearch
    /\ search_cache # <<>>

----------------------------------------------------------------------------
(* C19 *)

\* The place of a logged call in the order of a turn
Rank(c) ==
    CASE c = "decision_model" -> 1
      [] c = "cache_lookup"   -> 2
      [] c = "search_web"     -> 3
      [] c = "summarize"      -> 4
      [] c = "summary_model"  -> 5
      [] c = "cache_write"    -> 6
      [] c = "generate"       -> 7

\* Every call of the last turn was made at most once, in the order of Rank
InOrderOnce == \A i, j \in DOMAIN calls : i < j => Rank(calls[i]) < Rank(calls[j])

\* search_web only after a cache miss, the summarizer model only after a
\* non-empty search
CallsJustified ==
    /\ Count(calls, "search_web") > 0 =>
           (Count(calls, "cache_lookup") = 1
            /\ ret.result.search_query \notin DOMAIN ret.cache_before)
    /\ Count(calls, "summary_model") > 0 =>
           (Count(calls, "search_web") = 1 /\ ret.result.search_results # <<>>)
    /\ (Count(calls, "cache_lookup") = 1
        /\ ret.result.search_query \in DOMAIN ret.cache_before) =>
           (Count(calls, "search_web") = 0 /\ Count(calls, "summarize") = 0
            /\ Count(calls, "summary_model") = 0)

\* C19 as stated: in one turn nothing is retried and the calls come in a
\* fixed order: at most one decision model call, at most one cache lookup, at
\* most one search_web call (on a miss only), at most one summarizer model
\* call (after a non-empty search only), then exactly one final generation
\* call; on a cache hit neither search_web nor the summarizer is called.
C19_FixedOrder ==
    ret.status # "none" =>
        /\ InOrderOnce
        /\ CallsJustified
        /\ Count(calls, "generate") = 1
        /\ calls[Len(calls)] = "generate"

\* C19 without the final call of turns that raise: the order and the
\* at-most-once hold for every turn, and a turn that returns ends with its
\* one final generation call
C19_OrderNoRetry ==
    ret.status # "none" =>
        /\ InOrderOnce
        /\ CallsJustified
        /\ Returned => (Count(calls, "generate") = 1 /\ calls[Len(calls)] = "generate")
        /\ ~Returned => Count(calls, "generate") = 0

----------------------------------------------------------------------------
(* C20 *)

\* The last turn searched on a cache miss and found something
NonEmptySearch ==
    /\ Returned
    /\ Count(calls, "search_web") = 1
    /\ ret.result.search_results # <<>>

\* The last turn found its query in the cache
CacheHit ==
    /\ Returned
    /\ ret.result.search_performed
    /\ ret.result.search_query \in DOMAIN ret.cache_before

\* C20: a call leaves the caller's conversation_history as it was, and leaves
\* the search cache as it was when search is disabled, the decision says no
\* search or fails, the query is found in the cache, or the search returns
\* nothing; after a non-empty search the cache differs only by the new key
\* search_query.
C20_Frame ==
    ret.status # "none" =>
        /\ ret.history_after = ret.args.conversation_history
        /\ ~ret.args.enable_search => search_cache = ret.cache_before
        /\ ~ret.result.search_performed => search_cache = ret.cache_before
        /\ CacheHit => search_cache = ret.cache_before
        /\ EmptySearch => search_cache = ret.cache_before
        /\ search_cache # ret.cache_before =>
               /\ NonEmptySearch
               /\ ret.result.search_query \notin DOMAIN ret.cache_before
               /\ DOMAIN search_cache = DOMAIN ret.cache_before \cup {ret.result.search_query}
               /\ \A q \in DOMAIN ret.cache_before : search_cache[q] = ret.cache_before[q]

\* A turn with a history of two messages added a second key to the cache
C20_Witness ==
    /\ NonEmptySearch
    /\ Len(ret.args.conversation_history) = 2
    /\ ret.cache_before # <<>>
    /\ search_cache # ret.cache_before

====
